---- MODULE Spec2Model ----
(***************************************************************************)
(* A model of the three services of the todo application:                  *)
(*   user-service/user_app.py       the Credential Store (table User)      *)
(*   todo-service/todo_app.py       the Task Store (table Todo)            *)
(*   frontend-service/frontend_app.py  the presentation layer: the session *)
(*       (current_user), the view state (todos) and the screen shown in    *)
(*       main_container, driven by the buttons that screen holds.          *)
(* Every endpoint is an operator from the table (and the request) to the   *)
(* response and the new table; every button handler is an operator on the  *)
(* world it runs in, and an action applies it.                             *)
(***************************************************************************)
EXTENDS Integers, Sequences, FiniteSets, TLC

VARIABLES
    User,            \* user-service: the rows of table User
    Todo,            \* todo-service: the rows of table Todo
    now,             \* the wall clock datetime.utcnow reads, in ticks
    current_user,    \* frontend: the session, None or <<[id, username]>>
    todos,           \* frontend: the view state, a sequence of todo JSON objects
    main_container,  \* frontend: the screen shown and what its buttons are bound to
    last,            \* the last operation run: its inputs, the requests it sent, the
                     \* response or the notifications it ended with
    other,           \* a second frontend process: its current_user, todos and
                     \* main_container
    threads          \* the request threads of the services: where each is in its
                     \* endpoint, what it has read and what it has answered

vars == <<User, Todo, now, current_user, todos, main_container, last, other, threads>>

(***************************************************************************)
(* Bounds of the model.                                                    *)
(***************************************************************************)
\* Row ids of table Todo are capped: create_todo is not run once the next id passes it.
MaxTodoId == 2
\* The clock stops advancing at MaxClock (later readings share that tick).
MaxClock == 2
\* Clock ticks per second: created_at is stored in ticks and shown in seconds.
TicksPerSecond == 2
\* The cap on the row ids of table Todo when two frontends share it.
MaxSharedTodoId == 1

Usernames == {"alice", "bob"}
Passwords == {"pw1", "pw2"}
\* Descriptions a client of the todo-service may send.
Descriptions == {"", "a", "b"}
\* What the user types into the description inputs of the frontend; an input
\* left alone holds "".
Typed == {"", "a"}
\* The passwords the user of the frontend opens accounts with.
Chosen == {"pw1"}
\* Owner ids a client of the todo-service may send in a POST body.
OwnerIds == {1, 2}
\* user_id query strings a client of the todo-service may send ("x": not a number).
OwnerQueries == {"1", "2", "x"}

\* Python's None, and a value that is present.
None == << >>
Some(x) == << x >>

(***************************************************************************)
(* Helpers.                                                                *)
(***************************************************************************)
Max(S) == CHOOSE x \in S : \A y \in S : y <= x
Min(S) == CHOOSE x \in S : \A y \in S : x <= y

\* The rows of a set of rows in ascending id order (SQLite scans a table in
\* rowid order; id is the rowid).
RECURSIVE RowidOrder(_)
RowidOrder(rows) ==
    IF rows = {} THEN << >>
    ELSE LET first == CHOOSE r \in rows : \A q \in rows : r.id <= q.id
         IN  << first >> \o RowidOrder(rows \ {first})

\* str(int) as requests encodes a query parameter.
DigitStr == << "1", "2", "3", "4", "5", "6", "7", "8", "9" >>
Str(i) == DigitStr[i]

\* The rows an INTEGER column matches against a bound text value: SQLite gives
\* the text NUMERIC affinity, so "1" matches 1 and "x" matches nothing.
MatchesInteger(col, text) ==
    \E i \in 1..Len(DigitStr) : DigitStr[i] = text /\ col = i

\* The id SQLite gives a new row of an INTEGER PRIMARY KEY table: one more
\* than the largest id in the table.
NextRowid(rows) == IF rows = {} THEN 1 ELSE Max({r.id : r \in rows}) + 1

(***************************************************************************)
(* HTTP responses: a status, a JSON body (a sequence of objects, empty for *)
(* an empty or non-JSON body) and the error text of an error object.       *)
(***************************************************************************)
Response(status, body, error) == [status |-> status, body |-> body, error |-> error]

(***************************************************************************)
(* user-service/user_app.py                                                *)
(***************************************************************************)
UserJson(u) == [id |-> u.id, username |-> u.username]

\* create_user with the existence check made on username and password together.
create_user_by_credentials(rows, data) ==
    IF \E u \in rows : u.username = data.username /\ u.password = data.password
    THEN [resp |-> Response(409, << >>, "User already exists"), rows |-> rows]
    ELSE LET new_user == [id |-> NextRowid(rows),
                          username |-> data.username,
                          password |-> data.password]
         IN  [resp |-> Response(201, << UserJson(new_user) >>, ""),
              rows |-> rows \cup {new_user}]

\* POST /create with body data = [username, password] on the rows of User.
create_user(rows, data) ==
    IF \E u \in rows : u.username = data.username
    THEN [resp |-> Response(409, << >>, "User already exists"), rows |-> rows]
    ELSE LET new_user == [id |-> NextRowid(rows),
                          username |-> data.username,
                          password |-> data.password]
         IN  [resp |-> Response(201, << UserJson(new_user) >>, ""),
              rows |-> rows \cup {new_user}]

\* login with the password left out of the query.
user_login_by_username(rows, data) ==
    LET found == {u \in rows : u.username = data.username}
    IN  IF found # {}
        THEN [resp |-> Response(200, << UserJson(RowidOrder(found)[1]) >>, ""), rows |-> rows]
        ELSE [resp |-> Response(401, << >>, ""), rows |-> rows]

\* POST /login with body data = [username, password] on the rows of User.
user_login(rows, data) ==
    LET found == {u \in rows : u.username = data.username /\ u.password = data.password}
    IN  IF found # {}
        THEN [resp |-> Response(200, << UserJson(RowidOrder(found)[1]) >>, ""), rows |-> rows]
        ELSE [resp |-> Response(401, << >>, ""), rows |-> rows]

(***************************************************************************)
(* todo-service/todo_app.py                                                *)
(***************************************************************************)
\* strftime('%Y-%m-%d %H:%M:%S'): the timestamp cut to whole seconds.
strftime(created_at) == created_at \div TicksPerSecond

TodoJson(t) == [id |-> t.id, description |-> t.description,
                created_at |-> strftime(t.created_at)]

RECURSIVE JsonList(_)
JsonList(rowseq) ==
    IF rowseq = << >> THEN << >>
    ELSE << TodoJson(Head(rowseq)) >> \o JsonList(Tail(rowseq))

\* get_todos with the filter on user_id left out.
get_todos_unfiltered(rows, user_id) ==
    [resp |-> Response(200, JsonList(RowidOrder(rows)), ""), rows |-> rows]

\* GET /todos?user_id=<user_id> on the rows of Todo.
get_todos(rows, user_id) ==
    LET found == {t \in rows : MatchesInteger(t.user_id, user_id)}
    IN  [resp |-> Response(200, JsonList(RowidOrder(found)), ""), rows |-> rows]

\* create_todo refusing an owner id that is no row of User.
create_todo_for_users(rows, data, utcnow) ==
    LET new_todo == [id |-> NextRowid(rows),
                     description |-> data.description,
                     user_id |-> data.user_id,
                     created_at |-> utcnow]
    IN  IF \E u \in User : u.id = data.user_id
        THEN [resp |-> Response(201, << TodoJson(new_todo) >>, ""),
              rows |-> rows \cup {new_todo}]
        ELSE [resp |-> Response(404, << >>, "Not Found"), rows |-> rows]

\* POST /todos with body data = [description, user_id]; utcnow is the clock
\* reading the column default takes when the row is inserted.
create_todo(rows, data, utcnow) ==
    LET new_todo == [id |-> NextRowid(rows),
                     description |-> data.description,
                     user_id |-> data.user_id,
                     created_at |-> utcnow]
    IN  [resp |-> Response(201, << TodoJson(new_todo) >>, ""),
         rows |-> rows \cup {new_todo}]

\* update_todo writing the description into every row once the id is found.
update_todo_all_rows(rows, todo_id, data) ==
    IF ~ \E t \in rows : t.id = todo_id
    THEN [resp |-> Response(404, << >>, "Not Found"), rows |-> rows]
    ELSE LET todo == CHOOSE t \in rows : t.id = todo_id
             updated == [todo EXCEPT !.description = data.description]
         IN  [resp |-> Response(200, << TodoJson(updated) >>, ""),
              rows |-> {[t EXCEPT !.description = data.description] : t \in rows}]

\* update_todo with the timestamp column taking the clock on every update.
update_todo_onupdate(rows, todo_id, data) ==
    IF ~ \E t \in rows : t.id = todo_id
    THEN [resp |-> Response(404, << >>, "Not Found"), rows |-> rows]
    ELSE LET todo == CHOOSE t \in rows : t.id = todo_id
             updated == [todo EXCEPT !.description = data.description, !.created_at = now]
         IN  [resp |-> Response(200, << TodoJson(updated) >>, ""),
              rows |-> (rows \ {todo}) \cup {updated}]

\* PUT /todos/<todo_id> with body data = [description].
update_todo(rows, todo_id, data) ==
    IF ~ \E t \in rows : t.id = todo_id
    THEN [resp |-> Response(404, << >>, "Not Found"), rows |-> rows]
    ELSE LET todo == CHOOSE t \in rows : t.id = todo_id
             updated == [todo EXCEPT !.description = data.description]
         IN  [resp |-> Response(200, << TodoJson(updated) >>, ""),
              rows |-> (rows \ {todo}) \cup {updated}]

\* delete_todo answering 200 for an id that is not there.
todo_delete_todo_idempotent(rows, todo_id) ==
    [resp |-> Response(200, << >>, ""), rows |-> {t \in rows : t.id # todo_id}]

\* DELETE /todos/<todo_id>.
todo_delete_todo(rows, todo_id) ==
    IF ~ \E t \in rows : t.id = todo_id
    THEN [resp |-> Response(404, << >>, "Not Found"), rows |-> rows]
    ELSE LET todo == CHOOSE t \in rows : t.id = todo_id
         IN  [resp |-> Response(200, << >>, ""), rows |-> rows \ {todo}]

(***************************************************************************)
(* frontend-service/frontend_app.py                                        *)
(*                                                                         *)
(* A handler runs in a world w: the globals current_user and todos, the    *)
(* screen in main_container, the two tables it reaches through requests,   *)
(* the clock, the notifications raised so far, the requests sent so far    *)
(* and whether an exception has ended the handler.                         *)
(***************************************************************************)
\* What happens to one request on the way: it is answered ("ok"), the service
\* answers with a server error and changes nothing ("error"), or the service
\* is unreachable and requests raises ConnectionError ("down").
Faults == {"ok", "error", "down"}
\* The faults of the (at most two) requests of one handler; the second request
\* is only sent when the first was answered.
FaultPlans == {<<"ok", "ok">>, <<"ok", "error">>, <<"ok", "down">>,
               <<"error", "ok">>, <<"down", "ok">>}

\* requests.get/post/put/delete: the service's result as the frontend gets it.
requests(fault, rows, result) ==
    CASE fault = "ok"    -> [resp |-> result.resp, rows |-> result.rows, raised |-> FALSE]
      [] fault = "error" -> [resp |-> Response(500, << >>, "Internal Server Error"),
                             rows |-> rows, raised |-> FALSE]
      [] OTHER           -> [resp |-> Response(0, << >>, ""), rows |-> rows, raised |-> TRUE]

\* The record of a request sent: the service and endpoint, the todo id in its
\* path (0: none), the status that came back (0: none) and the session at the
\* moment it was sent.
Sent(w, service, endpoint, id, r) ==
    [w EXCEPT !.reqs = Append(@, [service |-> service, endpoint |-> endpoint, id |-> id,
                                  status |-> r.resp.status,
                                  session |-> w.current_user]),
              !.raised = r.raised]

notify_action(w, message, color) ==
    [w EXCEPT !.notices = Append(@, [message |-> message, color |-> color])]

LoginScreen == [screen |-> "login", title |-> "Login", items |-> << >>, todo |-> None]

show_login_screen(w) == [w EXCEPT !.main_container = LoginScreen]

\* The todo screen: one row of Edit/Delete buttons per entry of todos.
show_todo_screen(w) ==
    [w EXCEPT !.main_container =
        [screen |-> "todo",
         title  |-> IF w.current_user # None THEN w.current_user[1].username ELSE "Your",
         items  |-> w.todos,
         todo   |-> None]]

\* The edit screen of one todo: Save and Cancel.
show_edit_screen(w, todo) ==
    [w EXCEPT !.main_container =
        [screen |-> "edit", title |-> "", items |-> << >>, todo |-> Some(todo)]]

start_edit(w, todo) == show_edit_screen(w, todo)

\* Cancel on the edit screen.
cancel_edit(w) == notify_action(show_todo_screen(w), "Edit canceled", "blue")

\* load_todos adding the fetched list to the view instead of replacing the view.
load_todos_merging(w, fault) ==
    IF w.current_user # None
    THEN LET r  == requests(fault, w.Todo, get_todos(w.Todo, Str(w.current_user[1].id)))
             w1 == Sent(w, "todo", "get_todos", 0, r)
         IN  IF r.raised THEN w1
             ELSE IF r.resp.status = 200
                  THEN show_todo_screen([w1 EXCEPT !.todos = @ \o r.resp.body])
                  ELSE notify_action(w1, "Failed to load todos!", "red")
    ELSE w

\* GET /todos for the session's owner; the view is replaced, then shown.
load_todos(w, fault) ==
    IF w.current_user # None
    THEN LET r  == requests(fault, w.Todo, get_todos(w.Todo, Str(w.current_user[1].id)))
             w1 == Sent(w, "todo", "get_todos", 0, r)
         IN  IF r.raised THEN w1
             ELSE IF r.resp.status = 200
                  THEN show_todo_screen([w1 EXCEPT !.todos = r.resp.body])
                  ELSE notify_action(w1, "Failed to load todos!", "red")
    ELSE w

\* login dropping the session when the Credential Store refuses the credentials.
login_clearing_on_failure(w, username, password, f1, f2) ==
    LET r  == requests(f1, w.User,
                       user_login(w.User, [username |-> username, password |-> password]))
        w1 == Sent(w, "user", "login", 0, r)
    IN  IF r.raised THEN w1
        ELSE IF r.resp.status = 200
             THEN load_todos(notify_action([w1 EXCEPT !.current_user = Some(r.resp.body[1])],
                                           "Login successful!", "green"), f2)
             ELSE notify_action([w1 EXCEPT !.current_user = None], "Login failed!", "red")

login(w, username, password, f1, f2) ==
    LET r  == requests(f1, w.User,
                       user_login(w.User, [username |-> username, password |-> password]))
        w1 == Sent(w, "user", "login", 0, r)
    IN  IF r.raised THEN w1
        ELSE IF r.resp.status = 200
             THEN load_todos(notify_action([w1 EXCEPT !.current_user = Some(r.resp.body[1])],
                                           "Login successful!", "green"), f2)
             ELSE notify_action(w1, "Login failed!", "red")

\* logout leaving the todo screen up.
logout_keeping_screen(w) ==
    notify_action([w EXCEPT !.current_user = None, !.todos = << >>],
                  "Logged out successfully!", "blue")

\* logout clearing the session alone.
logout_keeping_todos(w) ==
    notify_action(show_login_screen([w EXCEPT !.current_user = None]),
                  "Logged out successfully!", "blue")

logout(w) ==
    notify_action(show_login_screen([w EXCEPT !.current_user = None, !.todos = << >>]),
                  "Logged out successfully!", "blue")

create_account(w, username, password, f1) ==
    LET r  == requests(f1, w.User,
                       create_user(w.User, [username |-> username, password |-> password]))
        w1 == [Sent(w, "user", "create", 0, r) EXCEPT !.User = r.rows]
    IN  IF r.raised THEN w1
        ELSE IF r.resp.status = 201
             THEN notify_action(w1, "Account created successfully!", "green")
             ELSE notify_action(w1, "Failed to create account.", "red")

\* add_todo putting the created todo into the view before the list is fetched.
add_todo_optimistic(w, description, utcnow, f1, f2) ==
    IF w.current_user # None
    THEN LET r  == requests(f1, w.Todo,
                            create_todo(w.Todo, [description |-> description,
                                                 user_id |-> w.current_user[1].id], utcnow))
             w1 == [Sent(w, "todo", "create_todo", 0, r) EXCEPT
                        !.Todo = r.rows,
                        !.now = IF f1 = "ok" THEN utcnow ELSE @]
         IN  IF r.raised THEN w1
             ELSE IF r.resp.status = 201
                  THEN load_todos(notify_action([w1 EXCEPT !.todos = @ \o r.resp.body],
                                                "Todo added!", "green"), f2)
                  ELSE notify_action(w1, "Failed to add todo!", "red")
    ELSE w

add_todo(w, description, utcnow, f1, f2) ==
    IF w.current_user # None
    THEN LET r  == requests(f1, w.Todo,
                            create_todo(w.Todo, [description |-> description,
                                                 user_id |-> w.current_user[1].id], utcnow))
             w1 == [Sent(w, "todo", "create_todo", 0, r) EXCEPT
                        !.Todo = r.rows,
                        !.now = IF f1 = "ok" THEN utcnow ELSE @]
         IN  IF r.raised THEN w1
             ELSE IF r.resp.status = 201
                  THEN load_todos(notify_action(w1, "Todo added!", "green"), f2)
                  ELSE notify_action(w1, "Failed to add todo!", "red")
    ELSE w

\* delete_todo sending the entry's place in the view where its id belongs.
delete_todo_by_position(w, todo_id, f1, f2) ==
    LET place == CHOOSE k \in 1..Len(w.todos) : w.todos[k].id = todo_id
        r  == requests(f1, w.Todo, todo_delete_todo(w.Todo, place))
        w1 == [Sent(w, "todo", "delete_todo", place, r) EXCEPT !.Todo = r.rows]
    IN  IF r.raised THEN w1
        ELSE IF r.resp.status = 200
             THEN load_todos(notify_action(w1, "Todo deleted!", "green"), f2)
             ELSE notify_action(w1, "Failed to delete todo!", "red")

delete_todo(w, todo_id, f1, f2) ==
    LET r  == requests(f1, w.Todo, todo_delete_todo(w.Todo, todo_id))
        w1 == [Sent(w, "todo", "delete_todo", todo_id, r) EXCEPT !.Todo = r.rows]
    IN  IF r.raised THEN w1
        ELSE IF r.resp.status = 200
             THEN load_todos(notify_action(w1, "Todo deleted!", "green"), f2)
             ELSE notify_action(w1, "Failed to delete todo!", "red")

edit_todo(w, todo_id, new_description, f1, f2) ==
    LET r  == requests(f1, w.Todo,
                       update_todo(w.Todo, todo_id, [description |-> new_description]))
        w1 == [Sent(w, "todo", "update_todo", todo_id, r) EXCEPT !.Todo = r.rows]
    IN  IF r.raised THEN w1
        ELSE IF r.resp.status = 200
             THEN load_todos(notify_action(w1, "Todo edited!", "green"), f2)
             ELSE notify_action(w1, "Failed to edit todo!", "red")

(***************************************************************************)
(* The state machine.                                                      *)
(***************************************************************************)
NoArgs == [username |-> "", password |-> "", description |-> "",
           id |-> 0, user_id |-> 0, query |-> ""]

NoResponse == Response(0, << >>, "")

\* The request threads a service runs at a time.
Threads == {1, 2}

\* A thread that has no request: pc is where a thread is in its endpoint,
\* loaded the row its query gave it, seq the place of its commit among the
\* commits (0: none yet), wrote whether that commit changed a row.
Idle == [pc |-> "idle", username |-> "", password |-> "", id |-> 0, description |-> "",
         loaded |-> None, wrote |-> FALSE, seq |-> 0, resp |-> NoResponse]

Init ==
    /\ User = {}
    /\ Todo = {}
    /\ now = 0
    /\ current_user = None
    /\ todos = << >>
    /\ main_container = LoginScreen
    /\ last = [op |-> "start", args |-> NoArgs, resp |-> NoResponse, reqs |-> << >>,
               notices |-> << >>, raised |-> FALSE, again |-> FALSE]
    /\ other = [current_user |-> None, todos |-> << >>, main_container |-> LoginScreen]
    /\ threads = [i \in Threads |-> Idle]

\* The world a handler of the frontend starts in.
World ==
    [User |-> User, Todo |-> Todo, now |-> now, current_user |-> current_user,
     todos |-> todos, main_container |-> main_container,
     notices |-> << >>, reqs |-> << >>, raised |-> FALSE]

\* The state a handler of the frontend leaves.
Handled(w, op) ==
    /\ User' = w.User
    /\ Todo' = w.Todo
    /\ now' = w.now
    /\ current_user' = w.current_user
    /\ todos' = w.todos
    /\ main_container' = w.main_container
    /\ last' = [op |-> op, args |-> NoArgs, resp |-> NoResponse, reqs |-> w.reqs,
                notices |-> w.notices, raised |-> w.raised, again |-> FALSE]
    /\ UNCHANGED <<other, threads>>

\* The clock readings the next utcnow may give: a tick has passed since the
\* last reading, until the clock stops at MaxClock.
Readings == {Min({now + 1, MaxClock})}

\* ---- the buttons of the login screen
Login ==
    /\ main_container.screen = "login"
    /\ \E u \in Usernames, p \in Passwords, f \in FaultPlans :
          Handled(login(World, u, p, f[1], f[2]), "login")

CreateAccount ==
    /\ main_container.screen = "login"
    /\ \E u \in Usernames, p \in Chosen, f1 \in Faults :
          Handled(create_account(World, u, p, f1), "create_account")

\* ---- the buttons of the todo screen
AddTodo ==
    /\ main_container.screen = "todo"
    /\ NextRowid(Todo) <= MaxTodoId
    /\ \E d \in Typed, t \in Readings, f \in FaultPlans :
          Handled(add_todo(World, d, t, f[1], f[2]), "add_todo")

DeleteTodo ==
    /\ main_container.screen = "todo"
    /\ \E i \in 1..Len(main_container.items), f \in FaultPlans :
          Handled(delete_todo(World, main_container.items[i].id, f[1], f[2]), "delete_todo")

StartEdit ==
    /\ main_container.screen = "todo"
    /\ \E i \in 1..Len(main_container.items) :
          Handled(start_edit(World, main_container.items[i]), "start_edit")

Logout ==
    /\ main_container.screen = "todo"
    /\ Handled(logout(World), "logout")

\* ---- the buttons of the edit screen
SaveEdit ==
    /\ main_container.screen = "edit"
    /\ \E d \in Typed, f \in FaultPlans :
          Handled(edit_todo(World, main_container.todo[1].id, d, f[1], f[2]), "edit_todo")

CancelEdit ==
    /\ main_container.screen = "edit"
    /\ Handled(cancel_edit(World), "cancel_edit")

\* ---- requests of any other client of the two services
Served(op, args, result, again) ==
    last' = [op |-> op, args |-> args, resp |-> result.resp, reqs |-> << >>,
             notices |-> << >>, raised |-> FALSE, again |-> again]

ApiCreateUser ==
    \E u \in Usernames, p \in Passwords :
       LET result == create_user(User, [username |-> u, password |-> p])
       IN  /\ User' = result.rows
           /\ Served("create_user", [NoArgs EXCEPT !.username = u, !.password = p], result,
                     last.op = "create_user" /\ last.args.username = u
                        /\ last.resp.status = 201)
           /\ UNCHANGED <<Todo, now, current_user, todos, main_container, other, threads>>

ApiLogin ==
    \E u \in Usernames, p \in Passwords :
       LET result == user_login(User, [username |-> u, password |-> p])
       IN  /\ User' = result.rows
           /\ Served("user_login", [NoArgs EXCEPT !.username = u, !.password = p], result,
                     FALSE)
           /\ UNCHANGED <<Todo, now, current_user, todos, main_container, other, threads>>

ApiGetTodos ==
    \E q \in OwnerQueries :
       LET result == get_todos(Todo, q)
       IN  /\ Todo' = result.rows
           /\ Served("get_todos", [NoArgs EXCEPT !.query = q], result, FALSE)
           /\ UNCHANGED <<User, now, current_user, todos, main_container, other, threads>>

ApiCreateTodo ==
    /\ NextRowid(Todo) <= MaxTodoId
    /\ \E o \in OwnerIds, d \in Descriptions, t \in Readings :
          LET result == create_todo(Todo, [description |-> d, user_id |-> o], t)
          IN  /\ Todo' = result.rows
              /\ now' = t
              /\ Served("create_todo", [NoArgs EXCEPT !.user_id = o, !.description = d],
                        result, FALSE)
              /\ UNCHANGED <<User, current_user, todos, main_container, other, threads>>

ApiUpdateTodo ==
    \E i \in 1..MaxTodoId, d \in Descriptions :
       LET result == update_todo(Todo, i, [description |-> d])
       IN  /\ Todo' = result.rows
           /\ Served("update_todo", [NoArgs EXCEPT !.id = i, !.description = d], result, FALSE)
           /\ UNCHANGED <<User, now, current_user, todos, main_container, other, threads>>

ApiDeleteTodo ==
    \E i \in 1..MaxTodoId :
       LET result == todo_delete_todo(Todo, i)
       IN  /\ Todo' = result.rows
           /\ Served("todo_delete_todo", [NoArgs EXCEPT !.id = i], result,
                     last.op = "todo_delete_todo" /\ last.args.id = i
                        /\ last.resp.status = 200)
           /\ UNCHANGED <<User, now, current_user, todos, main_container, other, threads>>

Frontend ==
    \/ Login \/ CreateAccount \/ AddTodo \/ DeleteTodo \/ StartEdit \/ Logout
    \/ SaveEdit \/ CancelEdit

NextCred == ApiCreateUser \/ ApiLogin

NextTask == ApiGetTodos \/ ApiCreateTodo \/ ApiUpdateTodo \/ ApiDeleteTodo

Next == Frontend

\* The application: the frontend is the one client of the two services.
Spec == Init /\ [][Next]_vars

\* The user-service under the requests of any client.
SpecCred == Init /\ [][NextCred]_vars

\* The todo-service under the requests of any client.
SpecTask == Init /\ [][NextTask]_vars

(***************************************************************************)
(* The services under concurrent requests.  Flask runs each request in a   *)
(* thread of its own with a database session of its own; a thread's steps  *)
(* are its statements against the database, and the steps of two threads   *)
(* interleave.                                                             *)
(***************************************************************************)
\* The place of the next commit among the commits made.
NextSeq == Max({threads[i].seq : i \in Threads}) + 1

\* ---- user-service, create_user
\* The existence check of create_user: the SELECT ... first() on username.
create_user_check(rows, data) == \E u \in rows : u.username = data.username

\* The rest of create_user: the INSERT and its commit.  Column username is
\* unique=True: the INSERT of a username that is in the table raises
\* IntegrityError, which Flask answers with 500.
create_user_insert(rows, data) ==
    IF \E u \in rows : u.username = data.username
    THEN [resp |-> Response(500, << >>, "Internal Server Error"), rows |-> rows]
    ELSE LET new_user == [id |-> NextRowid(rows),
                          username |-> data.username,
                          password |-> data.password]
         IN  [resp |-> Response(201, << UserJson(new_user) >>, ""),
              rows |-> rows \cup {new_user}]

\* A thread takes a POST /create and runs it up to the existence check.
CheckCreateUser ==
    \E i \in Threads, u \in Usernames, p \in Passwords :
       /\ threads[i].pc = "idle"
       /\ threads' = [threads EXCEPT ![i] =
             IF create_user_check(User, [username |-> u, password |-> p])
             THEN [Idle EXCEPT !.pc = "done", !.username = u, !.password = p,
                               !.resp = Response(409, << >>, "User already exists")]
             ELSE [Idle EXCEPT !.pc = "checked", !.username = u, !.password = p]]
       /\ UNCHANGED <<User, Todo, now, current_user, todos, main_container, last, other>>

\* A thread that found no user of the name inserts its row and answers.
InsertCreateUser ==
    \E i \in Threads :
       /\ threads[i].pc = "checked"
       /\ LET result == create_user_insert(User, [username |-> threads[i].username,
                                                  password |-> threads[i].password])
          IN  /\ User' = result.rows
              /\ threads' = [threads EXCEPT ![i] =
                    [@ EXCEPT !.pc = "done", !.resp = result.resp,
                              !.wrote = (result.resp.status = 201), !.seq = NextSeq]]
       /\ UNCHANGED <<Todo, now, current_user, todos, main_container, last, other>>

NextCredRace == CheckCreateUser \/ InsertCreateUser

\* The user-service under two concurrent POST /create requests.
SpecCredRace == Init /\ [][NextCredRace]_vars

\* ---- todo-service, update_todo
\* Todo.query.get_or_404(todo_id): the row a thread's session loads, or None.
update_todo_load(rows, todo_id) ==
    IF \E t \in rows : t.id = todo_id
    THEN Some(CHOOSE t \in rows : t.id = todo_id)
    ELSE None

\* update_todo_flush writing the loaded object back as a whole.
update_todo_flush_snapshot(rows, loaded, data) ==
    [rows  |-> (rows \ {loaded}) \cup {[loaded EXCEPT !.description = data.description]},
     wrote |-> TRUE,
     stale |-> FALSE]

\* todo.description = data['description'] and db.session.commit(): the flush
\* compares the attribute with the value the session loaded and emits
\* UPDATE todo SET description = ? WHERE id = ? only when they differ; the
\* UPDATE changes that column of the row the table holds then (stale: it
\* matched no row).
update_todo_flush(rows, loaded, data) ==
    IF data.description = loaded.description
    THEN [rows |-> rows, wrote |-> FALSE, stale |-> FALSE]
    ELSE IF \E t \in rows : t.id = loaded.id
         THEN [rows  |-> {IF t.id = loaded.id
                          THEN [t EXCEPT !.description = data.description]
                          ELSE t : t \in rows},
               wrote |-> TRUE,
               stale |-> FALSE]
         ELSE [rows |-> rows, wrote |-> FALSE, stale |-> TRUE]

\* The response of update_todo: the commit has expired the object, and reading
\* its attributes loads the row again.
update_todo_respond(rows, todo_id) ==
    IF \E t \in rows : t.id = todo_id
    THEN Response(200, << TodoJson(CHOOSE t \in rows : t.id = todo_id) >>, "")
    ELSE Response(500, << >>, "Internal Server Error")

\* A thread takes a PUT /todos/<id> and loads the row.
LoadUpdateTodo ==
    \E i \in Threads, id \in 1..MaxTodoId, d \in Descriptions :
       /\ threads[i].pc = "idle"
       /\ threads' = [threads EXCEPT ![i] =
             IF update_todo_load(Todo, id) = None
             THEN [Idle EXCEPT !.pc = "done", !.id = id, !.description = d,
                               !.resp = Response(404, << >>, "Not Found")]
             ELSE [Idle EXCEPT !.pc = "loaded", !.id = id, !.description = d,
                               !.loaded = update_todo_load(Todo, id)]]
       /\ UNCHANGED <<User, Todo, now, current_user, todos, main_container, last, other>>

\* A thread that holds its row sets the description and commits.
CommitUpdateTodo ==
    \E i \in Threads :
       /\ threads[i].pc = "loaded"
       /\ LET result == update_todo_flush(Todo, threads[i].loaded[1],
                                          [description |-> threads[i].description])
          IN  /\ Todo' = result.rows
              /\ threads' = [threads EXCEPT ![i] =
                    IF result.stale
                    THEN [@ EXCEPT !.pc = "done",
                                   !.resp = Response(500, << >>, "Internal Server Error")]
                    ELSE [@ EXCEPT !.pc = "committed", !.wrote = result.wrote,
                                   !.seq = NextSeq]]
       /\ UNCHANGED <<User, now, current_user, todos, main_container, last, other>>

\* A thread that has committed builds its response.
AnswerUpdateTodo ==
    \E i \in Threads :
       /\ threads[i].pc = "committed"
       /\ threads' = [threads EXCEPT ![i] =
             [@ EXCEPT !.pc = "done", !.resp = update_todo_respond(Todo, threads[i].id)]]
       /\ UNCHANGED <<User, Todo, now, current_user, todos, main_container, last, other>>

\* The table the concurrent requests find: two todos of two owners, created
\* one after the other.
Seeded ==
    create_todo(create_todo({}, [description |-> "a", user_id |-> 1], 1).rows,
                [description |-> "b", user_id |-> 2], 2).rows

InitTaskRace ==
    /\ User = {}
    /\ Todo = Seeded
    /\ now = 2
    /\ current_user = None
    /\ todos = << >>
    /\ main_container = LoginScreen
    /\ last = [op |-> "start", args |-> NoArgs, resp |-> NoResponse, reqs |-> << >>,
               notices |-> << >>, raised |-> FALSE, again |-> FALSE]
    /\ other = [current_user |-> None, todos |-> << >>, main_container |-> LoginScreen]
    /\ threads = [i \in Threads |-> Idle]

NextTaskRace == LoadUpdateTodo \/ CommitUpdateTodo \/ AnswerUpdateTodo

\* The todo-service under two concurrent PUT /todos/<id> requests.
SpecTaskRace == InitTaskRace /\ [][NextTaskRace]_vars

(***************************************************************************)
(* Two frontend processes in front of the same two services.  Each has its *)
(* own globals current_user and todos and its own main_container; the      *)
(* first's are the variables of that name, the second's are in other.      *)
(***************************************************************************)
Instances == {1, 2}

\* The account both users of the frontends work with.
Account == [username |-> "alice", password |-> "pw1"]

\* The faults of a handler's requests here: none, or the refetch fails.
RefetchFaults == {<<"ok", "ok">>, <<"ok", "error">>}

\* The globals and the screen of frontend i.
ViewOf(i) ==
    IF i = 1
    THEN [current_user |-> current_user, todos |-> todos, main_container |-> main_container]
    ELSE other

\* The world a handler of frontend i starts in.
WorldOf(i) ==
    [World EXCEPT !.current_user = ViewOf(i).current_user,
                  !.todos = ViewOf(i).todos,
                  !.main_container = ViewOf(i).main_container]

\* Frontend i has a session, and its view is not what the Task Store lists
\* for the session's owner.
Stale(i) ==
    /\ ViewOf(i).current_user # None
    /\ ViewOf(i).todos # get_todos(Todo, Str(ViewOf(i).current_user[1].id)).resp.body

\* HandledBy with one set of globals and one screen for both frontends.
HandledBy_shared(i, w, op) ==
    /\ User' = w.User
    /\ Todo' = w.Todo
    /\ now' = w.now
    /\ current_user' = w.current_user
    /\ todos' = w.todos
    /\ main_container' = w.main_container
    /\ other' = [current_user |-> w.current_user, todos |-> w.todos,
                 main_container |-> w.main_container]
    /\ last' = [op |-> op, by |-> i, stale |-> Stale(i), reqs |-> w.reqs]
    /\ UNCHANGED threads

\* The state a handler of frontend i leaves: the other frontend's globals and
\* screen are not its to write.  last notes which frontend ran the handler
\* and whether its view was stale when the handler began.
HandledBy(i, w, op) ==
    /\ User' = w.User
    /\ Todo' = w.Todo
    /\ now' = w.now
    /\ IF i = 1
       THEN /\ current_user' = w.current_user
            /\ todos' = w.todos
            /\ main_container' = w.main_container
            /\ other' = other
       ELSE /\ other' = [current_user |-> w.current_user, todos |-> w.todos,
                         main_container |-> w.main_container]
            /\ UNCHANGED <<current_user, todos, main_container>>
    /\ last' = [op |-> op, by |-> i, stale |-> Stale(i), reqs |-> w.reqs]
    /\ UNCHANGED threads

EitherLogin ==
    \E i \in Instances, f \in RefetchFaults :
       /\ ViewOf(i).main_container.screen = "login"
       /\ HandledBy(i, login(WorldOf(i), Account.username, Account.password, f[1], f[2]),
                    "login")

EitherCreateAccount ==
    \E i \in Instances :
       /\ ViewOf(i).main_container.screen = "login"
       /\ HandledBy(i, create_account(WorldOf(i), Account.username, Account.password, "ok"),
                    "create_account")

EitherAddTodo ==
    \E i \in Instances, d \in Typed, t \in Readings, f \in RefetchFaults :
       /\ ViewOf(i).main_container.screen = "todo"
       /\ NextRowid(Todo) <= MaxSharedTodoId
       /\ HandledBy(i, add_todo(WorldOf(i), d, t, f[1], f[2]), "add_todo")

EitherDeleteTodo ==
    \E i \in Instances, f \in RefetchFaults :
       /\ ViewOf(i).main_container.screen = "todo"
       /\ \E k \in 1..Len(ViewOf(i).main_container.items) :
             HandledBy(i, delete_todo(WorldOf(i), ViewOf(i).main_container.items[k].id,
                                      f[1], f[2]), "delete_todo")

EitherStartEdit ==
    \E i \in Instances :
       /\ ViewOf(i).main_container.screen = "todo"
       /\ \E k \in 1..Len(ViewOf(i).main_container.items) :
             HandledBy(i, start_edit(WorldOf(i), ViewOf(i).main_container.items[k]),
                       "start_edit")

EitherLogout ==
    \E i \in Instances :
       /\ ViewOf(i).main_container.screen = "todo"
       /\ HandledBy(i, logout(WorldOf(i)), "logout")

EitherSaveEdit ==
    \E i \in Instances, d \in Typed, f \in RefetchFaults :
       /\ ViewOf(i).main_container.screen = "edit"
       /\ HandledBy(i, edit_todo(WorldOf(i), ViewOf(i).main_container.todo[1].id, d,
                                 f[1], f[2]), "edit_todo")

EitherCancelEdit ==
    \E i \in Instances :
       /\ ViewOf(i).main_container.screen = "edit"
       /\ HandledBy(i, cancel_edit(WorldOf(i)), "cancel_edit")

InitTwo ==
    /\ User = {}
    /\ Todo = {}
    /\ now = 0
    /\ current_user = None
    /\ todos = << >>
    /\ main_container = LoginScreen
    /\ last = [op |-> "start", by |-> 0, stale |-> FALSE, reqs |-> << >>]
    /\ other = [current_user |-> None, todos |-> << >>, main_container |-> LoginScreen]
    /\ threads = [i \in Threads |-> Idle]

NextTwo ==
    \/ EitherLogin \/ EitherCreateAccount \/ EitherAddTodo \/ EitherDeleteTodo
    \/ EitherStartEdit \/ EitherLogout \/ EitherSaveEdit \/ EitherCancelEdit

\* Two frontends, the only clients of the two services.
SpecTwo == InitTwo /\ [][NextTwo]_vars

(***************************************************************************)
(* The claims.                                                             *)
(***************************************************************************)
\* The handlers that end in a refetch, and those among them that change the Task Store.
Triggers == {"login", "add_todo", "edit_todo", "delete_todo"}
Mutations == {"add_todo", "edit_todo", "delete_todo"}

Success == {200, 201}

\* What listTasks returns for the session's owner on the Task Store as it is.
Listed == get_todos(Todo, Str(current_user[1].id)).resp.body

\* C1: when login, add_todo, edit_todo or delete_todo has had its first request
\* answered with success, a listTasks request for the session's owner follows;
\* and when that one succeeds too, the view is exactly the sequence it returned
\* (nothing of the old view is kept) and the todo screen shows that sequence.
C1_ViewIsTheRefetchedList ==
    (last.op \in Triggers /\ Len(last.reqs) >= 1 /\ last.reqs[1].status \in Success)
        => /\ current_user # None
           /\ Len(last.reqs) = 2
           /\ last.reqs[2].service = "todo"
           /\ last.reqs[2].endpoint = "get_todos"
           /\ last.reqs[2].session = current_user
           /\ last.reqs[2].status = 200
                 => /\ todos = Listed
                    /\ main_container.screen = "todo"
                    /\ main_container.items = todos

\* C1 witness: an add_todo completed with its refetch, and the view holds two todos.
C1_Witness ==
    /\ last.op = "add_todo"
    /\ Len(last.reqs) = 2
    /\ last.reqs[1].status = 201
    /\ last.reqs[2].status = 200
    /\ Len(todos) = 2

\* A request of the last handler came back with a status that is no success.
FailedResponse(l) ==
    \E i \in 1..Len(l.reqs) : l.reqs[i].status # 0 /\ l.reqs[i].status \notin Success

FailureNotice(l) == \E i \in 1..Len(l.notices) : l.notices[i].color = "red"

\* C2: a step of add_todo, edit_todo or delete_todo in which the mutation
\* request or the refetch came back with a non-success status leaves the view
\* as it was and raises a failure notice.
C2_FailureLeavesTheView ==
    [][ (last'.op \in Mutations /\ FailedResponse(last'))
            => (todos' = todos /\ FailureNotice(last')) ]_vars

\* C2 witness: an add_todo whose todo was created and whose refetch failed; the
\* view keeps its one entry while the Task Store lists two.
C2_Witness ==
    /\ last.op = "add_todo"
    /\ Len(last.reqs) = 2
    /\ last.reqs[1].status = 201
    /\ last.reqs[2].status = 500
    /\ Len(todos) = 1
    /\ Len(Listed) = 2

\* C3: every request the last handler sent to the todo-service was sent while
\* a session existed, and while there is no session the screen holds no button
\* of the todo or edit screen, so no handler that would send one can run.
C3_TaskRequestsNeedASession ==
    /\ \A i \in 1..Len(last.reqs) :
          last.reqs[i].service = "todo" => last.reqs[i].session # None
    /\ current_user = None => main_container.screen = "login"

\* C3 witness: a delete was sent for a todo on the todo screen, under a session.
C3_Witness ==
    /\ last.op = "delete_todo"
    /\ last.reqs[1].service = "todo"
    /\ last.reqs[1].endpoint = "delete_todo"
    /\ last.reqs[1].session # None

\* C4 as claimed: createTask with an empty description is not answered with
\* success, returns no todo and leaves the Task Store as it was.
C4_EmptyDescriptionIsRejected ==
    [][ (last'.op = "create_todo" /\ last'.args.description = "")
            => /\ last'.resp.status \notin Success
               /\ last'.resp.body = << >>
               /\ Todo' = Todo ]_vars

Usernames_of(rows) == {u.username : u \in rows}
Ids_of(rows) == {r.id : r \in rows}

\* C5: createUser for a username that is not stored answers 201 with the new
\* user's id and username, the id is none of the stored ids, and exactly that
\* record is added; createUser for a stored username answers 409 and changes
\* nothing; so the second of two createUser calls for one username, the first
\* of which succeeded, is answered 409.
C5_SecondCreateConflicts ==
    [][ last'.op = "create_user" =>
          LET u == last'.args.username
              p == last'.args.password
          IN  /\ u \notin Usernames_of(User) =>
                    /\ last'.resp.status = 201
                    /\ \E id \in 1..(Cardinality(User) + 1) :
                          /\ id \notin Ids_of(User)
                          /\ User' = User \cup {[id |-> id, username |-> u, password |-> p]}
                          /\ last'.resp.body = << [id |-> id, username |-> u] >>
              /\ u \in Usernames_of(User) =>
                    (last'.resp.status = 409 /\ User' = User)
              /\ last'.again => (last'.resp.status = 409 /\ User' = User)
              /\ \A x \in User', y \in User' : x.username = y.username => x = y ]_vars

\* C5 witness: a createUser answered 409 right after the createUser of the
\* same username, with another password, succeeded.
C5_Witness ==
    /\ last.op = "create_user"
    /\ last.again
    /\ last.resp.status = 409
    /\ \E x \in User : x.username = last.args.username /\ x.password # last.args.password

Unauthorized == Response(401, << >>, "")

\* C6: authenticate answers 200 exactly when a stored user has that username
\* and that secret, and then with that user's id and username; every other
\* call gets the one response 401 with an empty body; the Credential Store is
\* not changed; and authenticate right after the createUser of the same
\* username and secret succeeded returns what that createUser returned.
C6_AuthenticateExactMatch ==
    [][ last'.op = "user_login" =>
          LET u == last'.args.username
              p == last'.args.password
              stored == \E x \in User : x.username = u /\ x.password = p
          IN  /\ User' = User
              /\ stored <=> last'.resp.status = 200
              /\ stored => \E x \in User :
                              /\ x.username = u /\ x.password = p
                              /\ last'.resp.body = << [id |-> x.id, username |-> u] >>
              /\ ~ stored => last'.resp = Unauthorized
              /\ (last.op = "create_user" /\ last.resp.status = 201 /\ last.args = last'.args)
                    => last'.resp.body = last.resp.body ]_vars

\* C6 witness: authenticate was refused for a stored username with another secret.
C6_Witness ==
    /\ last.op = "user_login"
    /\ last.resp = Unauthorized
    /\ \E x \in User : x.username = last.args.username /\ x.password # last.args.password

\* The rows of owner query string q.
Owned(rows, q) == {t \in rows : Str(t.user_id) = q}
Row(rows, id) == CHOOSE t \in rows : t.id = id

\* C7: listTasks answers 200 and changes nothing; its body holds one entry for
\* each todo of that owner and no other entry, each with the todo's id,
\* description and creation second, in ascending order of creation time; it is
\* empty for an owner without todos and for a user_id that names no owner.
C7_ListIsTheOwnersTodosInOrder ==
    [][ last'.op = "get_todos" =>
          LET q == last'.args.query
              body == last'.resp.body
              mine == IF q \in {Str(o) : o \in OwnerIds} THEN Owned(Todo, q) ELSE {}
          IN  /\ Todo' = Todo
              /\ last'.resp.status = 200
              /\ Len(body) = Cardinality(mine)
              /\ {body[i].id : i \in 1..Len(body)} = Ids_of(mine)
              /\ \A i \in 1..Len(body) :
                    /\ body[i].description = Row(mine, body[i].id).description
                    /\ body[i].created_at = Row(mine, body[i].id).created_at \div TicksPerSecond
              /\ \A i \in 1..Len(body), j \in 1..Len(body) :
                    i < j => Row(mine, body[i].id).created_at <= Row(mine, body[j].id).created_at ]_vars

\* C7 witness: a list of one owner's two todos, created at different times.
C7_Witness ==
    /\ last.op = "get_todos"
    /\ Len(last.resp.body) = 2
    /\ \E a \in Todo, b \in Todo : a.created_at < b.created_at

\* C8: updateTask for an id that is not stored answers 404 and changes
\* nothing; for a stored id it answers 200 and the store differs only in that
\* todo's description: its id, owner and creation time and every other todo
\* are as before.
C8_UpdateChangesOnlyTheDescription ==
    [][ last'.op = "update_todo" =>
          LET id == last'.args.id
          IN  IF id \notin Ids_of(Todo)
              THEN last'.resp.status = 404 /\ Todo' = Todo
              ELSE /\ last'.resp.status = 200
                   /\ Ids_of(Todo') = Ids_of(Todo)
                   /\ Cardinality(Todo') = Cardinality(Todo)
                   /\ \A t \in Todo : t.id # id => t \in Todo'
                   /\ Row(Todo', id).description = last'.args.description
                   /\ Row(Todo', id).user_id = Row(Todo, id).user_id
                   /\ Row(Todo', id).created_at = Row(Todo, id).created_at ]_vars

\* C8 witness: an update gave one of two stored todos a description the other has not.
C8_Witness ==
    /\ last.op = "update_todo"
    /\ last.resp.status = 200
    /\ Cardinality(Todo) = 2
    /\ \E t \in Todo : t.id # last.args.id /\ t.description # last.args.description

\* C9: deleteTask for a stored id answers 200 and removes that todo and no
\* other; for an id that is not stored it answers 404 and changes nothing; so
\* the second of two deleteTask calls for one id, the first of which
\* succeeded, is answered 404 and changes nothing.
C9_SecondDeleteIsNotFound ==
    [][ last'.op = "todo_delete_todo" =>
          LET id == last'.args.id
          IN  /\ id \in Ids_of(Todo) =>
                    /\ last'.resp.status = 200
                    /\ Todo' = Todo \ {Row(Todo, id)}
                    /\ Cardinality(Todo') = Cardinality(Todo) - 1
              /\ id \notin Ids_of(Todo) => (last'.resp.status = 404 /\ Todo' = Todo)
              /\ last'.again => (last'.resp.status = 404 /\ Todo' = Todo) ]_vars

\* C9 witness: a delete answered 404 right after the delete of the same id
\* succeeded, with another todo still stored.
C9_Witness ==
    /\ last.op = "todo_delete_todo"
    /\ last.again
    /\ last.resp.status = 404
    /\ Todo # {}


\* C10: logout leaves neither a session nor a view, and in every state
\* without a session the view is empty.
C10_NoSessionNoView ==
    /\ last.op = "logout" => (current_user = None /\ todos = << >>)
    /\ current_user = None => todos = << >>

\* C10 witness: a logout has run while the Task Store holds todos.
C10_Witness ==
    /\ last.op = "logout"
    /\ current_user = None
    /\ Todo # {}

\* The identities the Credential Store can return: the id and username of a stored User.
Identities(rows) == {[id |-> u.id, username |-> u.username] : u \in rows}

\* C11: the session is None or one identity; it becomes an identity that it was
\* not before only in a login whose request came back 200, and then it is the
\* id and username of a User the Credential Store holds, whatever the session
\* was before; a login whose request came back with anything else leaves the
\* session and the view as they were.
C11_SessionOnlyFromLogin ==
    [][ /\ Len(current_user') <= 1
        /\ (current_user' # current_user /\ current_user' # None)
              => (last'.op = "login" /\ last'.reqs[1].status = 200)
        /\ (last'.op = "login" /\ last'.reqs[1].status = 200)
              => (current_user' # None /\ current_user'[1] \in Identities(User))
        /\ (last'.op = "login" /\ last'.reqs[1].status # 200)
              => (current_user' = current_user /\ todos' = todos) ]_vars

\* A login answered 401 while a session was live, which is still live.
C11_Refused ==
    /\ last.op = "login"
    /\ last.reqs[1].status = 401
    /\ last.reqs[1].session # None
    /\ current_user = last.reqs[1].session

\* C11 witness: a login answered 200 while the session was another identity,
\* which it has overwritten.
C11_Witness ==
    /\ last.op = "login"
    /\ last.reqs[1].status = 200
    /\ last.reqs[1].session # None
    /\ current_user # last.reqs[1].session

\* C12: a create_todo for an owner id that is the id of no User is answered 201
\* and stores a Todo of that owner, leaving table User alone; a get_todos for
\* that owner that comes next is answered 200 with the created Todo in its list.
C12_UnknownOwnerIsAccepted ==
    [][ /\ (last'.op = "create_todo" /\ ~ \E u \in User : u.id = last'.args.user_id)
              => /\ last'.resp.status = 201
                 /\ User' = User
                 /\ \E t \in Todo' \ Todo :
                       /\ t.user_id = last'.args.user_id
                       /\ last'.resp.body = << TodoJson(t) >>
        /\ (/\ last.op = "create_todo"
            /\ ~ \E u \in User : u.id = last.args.user_id
            /\ last'.op = "get_todos"
            /\ last'.args.query = Str(last.args.user_id))
              => /\ last'.resp.status = 200
                 /\ \E k \in 1..Len(last'.resp.body) :
                       last'.resp.body[k] = last.resp.body[1] ]_vars

\* C12 witness: table User is empty, and the list of owner 2 holds two todos.
C12_Witness ==
    /\ User = {}
    /\ last.op = "get_todos"
    /\ last.args.query = "2"
    /\ Len(last.resp.body) = 2

\* A request of the last handler found its service unreachable.
Unreachable(l) == \E i \in 1..Len(l.reqs) : l.reqs[i].status = 0

\* C13: a handler one of whose requests finds the service unreachable raises a
\* failure notice, ends without an exception and leaves the view as it was,
\* and the session too when it was the handler's first request.
C13_UnreachableIsAFailureNotice ==
    [][ Unreachable(last')
            => /\ FailureNotice(last')
               /\ ~ last'.raised
               /\ todos' = todos
               /\ (last'.reqs[1].status = 0 => current_user' = current_user) ]_vars

\* C14: after every step of the Task Store no two Todos share an id and every
\* Todo has an id, a description, one owner id and a creation timestamp; a
\* Todo that is there before and after a step (create_todo, update_todo or
\* todo_delete_todo of any id) has the owner and the timestamp it had.
C14_IdentityOwnerAndTimestampAreFixed ==
    [][ /\ \A a, b \in Todo' : a.id = b.id => a = b
        /\ \A t \in Todo' :
              /\ DOMAIN t = {"id", "description", "user_id", "created_at"}
              /\ t.id \in 1..MaxTodoId
              /\ t.user_id \in OwnerIds
              /\ t.created_at \in 0..MaxClock
        /\ \A t \in Todo, s \in Todo' :
              s.id = t.id => (s.user_id = t.user_id /\ s.created_at = t.created_at) ]_vars

\* C14 witness: an update_todo has rewritten one of two Todos, created before
\* the clock's present reading.
C14_Witness ==
    /\ last.op = "update_todo"
    /\ last.resp.status = 200
    /\ Cardinality(Todo) = 2
    /\ \E t \in Todo :
          /\ t.id = last.args.id
          /\ t.description = last.args.description
          /\ t.created_at < now

\* C15: every Todo the Task Store holds has a description that is not empty.
C15_DescriptionsAreNonEmpty == \A t \in Todo : t.description # ""

\* C16: under concurrent create_user requests, whatever their interleaving, no
\* two rows of User have one username, and of two requests for one username
\* that have both been answered, one was answered 201 and the other 409.
C16_ConcurrentCreateConflicts ==
    /\ \A a, b \in User : a.username = b.username => a = b
    /\ \A i, j \in Threads :
          (/\ i # j
           /\ threads[i].pc = "done"
           /\ threads[j].pc = "done"
           /\ threads[i].username = threads[j].username)
             => {threads[i].resp.status, threads[j].resp.status} = {201, 409}

\* What of C16 the code does keep: usernames stay unique in the table, and of
\* two answered requests for one username exactly one was answered 201.
C16_UniqueAndOneSuccess ==
    /\ \A a, b \in User : a.username = b.username => a = b
    /\ \A i, j \in Threads :
          (/\ i # j
           /\ threads[i].pc = "done"
           /\ threads[j].pc = "done"
           /\ threads[i].username = threads[j].username)
             => \E k \in {i, j} : \A m \in {i, j} :
                   (threads[m].resp.status = 201) <=> (m = k)

\* Two requests to update one todo that was there have both been answered.
BothUpdated(i, j) ==
    /\ i # j
    /\ threads[i].pc = "done" /\ threads[i].loaded # None
    /\ threads[j].pc = "done" /\ threads[j].loaded # None
    /\ threads[i].id = threads[j].id

\* Both requests were answered 200, and the table is the one they found but
\* for the description of their todo.
BothSucceededOnOneRow(i, j) ==
    /\ threads[i].resp.status = 200
    /\ threads[j].resp.status = 200
    /\ \A a, b \in Todo : a.id = b.id => a = b
    /\ \A t \in Seeded :
          IF t.id = threads[i].id
          THEN [t EXCEPT !.description = Row(Todo, t.id).description] \in Todo
          ELSE t \in Todo
    /\ Cardinality(Todo) = Cardinality(Seeded)

\* C18 as stated: two update_todo requests for one id, in any
\* interleaving, are both answered 200, the todo's description is the one of
\* the request whose commit came last, and id, owner, timestamp and the other
\* todos are as they were.
C18_LastCommitWins ==
    \A i, j \in Threads :
       (BothUpdated(i, j) /\ threads[i].seq > threads[j].seq)
          => /\ BothSucceededOnOneRow(i, j)
             /\ Row(Todo, threads[i].id).description = threads[i].description

\* C18: two update_todo requests for one id, in any interleaving, are both
\* answered 200; the todo's description is the one of the last request whose
\* commit wrote the row (a request whose description is the one it loaded
\* writes nothing), the description the requests found when neither wrote, and
\* in every case one of the two descriptions requested; id, owner, timestamp
\* and the other todos are as they were.
C18_LastWriteWins ==
    \A i, j \in Threads :
       (BothUpdated(i, j) /\ threads[i].seq > threads[j].seq)
          => /\ BothSucceededOnOneRow(i, j)
             /\ Row(Todo, threads[i].id).description
                   \in {threads[i].description, threads[j].description}
             /\ Row(Todo, threads[i].id).description =
                   IF threads[i].wrote THEN threads[i].description
                   ELSE IF threads[j].wrote THEN threads[j].description
                   ELSE Row(Seeded, threads[i].id).description

\* Both requests loaded the todo before either committed, both wrote, and both
\* have been answered.
C18_BothWrote ==
    \E i, j \in Threads :
       /\ BothUpdated(i, j)
       /\ threads[i].seq > threads[j].seq
       /\ threads[i].wrote /\ threads[j].wrote
       /\ threads[i].loaded = threads[j].loaded
       /\ threads[i].description # threads[j].description

\* C18 witness: both requests loaded the todo before either committed, the one
\* that committed last wrote nothing, and both have been answered.
C18_Witness ==
    \E i, j \in Threads :
       /\ BothUpdated(i, j)
       /\ threads[i].seq > threads[j].seq
       /\ ~ threads[i].wrote /\ threads[j].wrote
       /\ threads[i].loaded = threads[j].loaded

\* The last handler was a mutation of frontend i that went through with its refetch.
MutatedAndRefetched(l, i) ==
    /\ l.by = i
    /\ l.op \in Mutations
    /\ Len(l.reqs) = 2
    /\ l.reqs[1].status \in Success
    /\ l.reqs[2].status = 200

\* C17: with two frontends, a handler of one leaves the session, the view and
\* the screen of the other as they were, so a view made stale by the other
\* frontend's mutation stays stale until its own frontend acts; and a frontend
\* whose mutation and refetch both succeed has, after them, the view the Task
\* Store lists for its session's owner, stale or not before.
C17_OwnRefetchResyncs ==
    [][ \A i \in Instances :
          /\ last'.by # i => ViewOf(i)' = ViewOf(i)
          /\ MutatedAndRefetched(last', i)
                => (ViewOf(i)'.current_user # None /\ ~ Stale(i)') ]_vars

\* Both frontends are logged in as one owner, one of them has just changed the
\* Task Store, and the view of the other is not what the Task Store lists.
C17_StaleReachable ==
    \E i, j \in Instances :
       /\ i # j
       /\ ViewOf(i).current_user # None
       /\ ViewOf(i).current_user = ViewOf(j).current_user
       /\ MutatedAndRefetched(last, j)
       /\ Stale(i)
       /\ ~ Stale(j)

\* C17 witness: both frontends are logged in as one owner; one of them, its
\* view stale, has run a mutation with its refetch and its view is the Task
\* Store's list again.
C17_Witness ==
    \E i, j \in Instances :
       /\ i # j
       /\ ViewOf(i).current_user # None
       /\ ViewOf(i).current_user = ViewOf(j).current_user
       /\ MutatedAndRefetched(last, i)
       /\ last.stale
       /\ ~ Stale(i)
       /\ Len(ViewOf(i).todos) = 1

\* The last handler's refetch for the session it left came back 200.
Refetched(l, session) ==
    /\ Len(l.reqs) >= 1
    /\ l.reqs[Len(l.reqs)].endpoint = "get_todos"
    /\ l.reqs[Len(l.reqs)].status = 200
    /\ l.reqs[Len(l.reqs)].session = session

\* C19: the view is only ever replaced by the list the Task Store has just
\* returned for the owner of the session the handler leaves, or emptied; and
\* whenever the session changes, the view the handler leaves is that list or
\* is empty.  So at no time does the view hold an entry that was not returned
\* for the present session's owner; a login that overwrites a session and
\* whose refetch fails leaves no todo of the previous owner in it.
C19_ViewIsOfTheSessionsOwner ==
    /\ [] /\ (current_user # None /\ Refetched(last, current_user)) => todos = Listed
          /\ current_user = None => todos = << >>
          /\ main_container.screen = "login" => todos = << >>
    /\ [][ (todos' # todos \/ current_user' # current_user)
              => \/ todos' = << >>
                 \/ (current_user' # None /\ Refetched(last', current_user')) ]_vars

\* C19 witness: a login was answered 200 over the live session of another user
\* who has todos in the Task Store, and its refetch failed.
C19_Witness ==
    /\ last.op = "login"
    /\ Len(last.reqs) = 2
    /\ last.reqs[1].status = 200
    /\ last.reqs[1].session # None
    /\ last.reqs[1].session # current_user
    /\ last.reqs[2].status = 500
    /\ \E t \in Todo : t.user_id = last.reqs[1].session[1].id

\* The ids of the entries of a view.
ViewIds(view) == {view[k].id : k \in 1..Len(view)}

\* C20: every PUT /todos/<id> and DELETE /todos/<id> the frontend sends goes
\* out under a live session and carries the id of an entry of the view as it
\* is when the handler starts (on the edit screen, the id of the todo the
\* screen was opened on); the todo screen's buttons are those of the view's
\* entries, and the edit screen's todo is an entry of the view.
C20_OnlyListedIdsAreTargeted ==
    [][ /\ \A k \in 1..Len(last'.reqs) :
              last'.reqs[k].endpoint \in {"update_todo", "delete_todo"}
                 => /\ current_user # None
                    /\ last'.reqs[k].session = current_user
                    /\ last'.reqs[k].id \in ViewIds(todos)
                    /\ main_container.screen = "edit"
                          => last'.reqs[k].id = main_container.todo[1].id
        /\ main_container'.screen = "todo" => main_container'.items = todos'
        /\ main_container'.screen = "edit"
              => \E n \in 1..Len(todos') : todos'[n] = main_container'.todo[1] ]_vars

\* C20 witness: a delete went out for one of two todos of the view and was
\* answered 200; the refetched view holds the other.
C20_Witness ==
    /\ last.op = "delete_todo"
    /\ Len(last.reqs) = 2
    /\ last.reqs[1].endpoint = "delete_todo"
    /\ last.reqs[1].status = 200
    /\ last.reqs[1].session = current_user
    /\ last.reqs[2].status = 200
    /\ Len(todos) = 1
    /\ last.reqs[1].id \notin ViewIds(todos)
====
